---- MODULE Spec2Model ----
(***************************************************************************)
(* The document-upload view of src/frontend/src/App.js as a state machine: *)
(* the component's view state (message, documents, openDocumentId,         *)
(* isLoading), the HTTP requests it has in flight, and one action per      *)
(* event handler or asynchronous continuation.                             *)
(***************************************************************************)
EXTENDS Integers, Sequences, FiniteSets, TLC

VARIABLES
    message,         \* useState('')      App.js:5
    documents,       \* useState([])      App.js:6
    openDocumentId,  \* useState(null)    App.js:7
    isLoading,       \* useState(false)   App.js:8
    health,          \* position of the mount effect's /health promise chain
    uploads,         \* one record per handleFile invocation, in call order
    fetches,         \* one record per fetchDocuments invocation, in call order
    applied,         \* the fetchDocuments invocation whose data setDocuments
                     \* was last given, 0 before the first
    issued           \* how many times each <<method, url>> was handed to fetch()

vars == <<message, documents, openDocumentId, isLoading, health, uploads,
          fetches, applied, issued>>

(***************************************************************************)
(* Bounds of the model.                                                    *)
(***************************************************************************)
\* handleFile invocations in one behaviour
MaxUploads == 2

(***************************************************************************)
(* JavaScript values and strings.                                          *)
(***************************************************************************)
\* JavaScript null (openDocumentId's initial value); no document id equals it
Null == "<null>"

\* the value of a property the object does not have
Undefined == [t |-> "undefined"]

Str(s) == [t |-> "string", v |-> s]

\* data.key on a parsed JSON object, held as its <<key, value>> entries
Get(data, key) ==
    IF \E i \in 1..Len(data) : data[i][1] = key
    THEN Str(data[CHOOSE i \in 1..Len(data) : data[i][1] = key][2])
    ELSE Undefined

\* ${value} inside a template literal
TemplateString(value) == IF value = Undefined THEN "undefined" ELSE value.v

\* the left operand of ||: undefined and '' are falsy
Truthy(value) == value # Undefined /\ value.v # ""

\* String.prototype.startsWith
StartsWith(s, prefix) ==
    /\ Len(s) >= Len(prefix)
    /\ SubSeq(s, 1, Len(prefix)) = prefix

\* position of the last '.' of a name, 0 when it has none
LastDot(name) ==
    LET dots == {i \in 1..Len(name) : SubSeq(name, i, i) = "."}
    IN  IF dots = {} THEN 0 ELSE CHOOSE i \in dots : \A j \in dots : j <= i

\* name.split('.').pop(): what follows the last '.', the whole name without one
SplitPop(name) == SubSeq(name, LastDot(name) + 1, Len(name))

allowedExtensions == <<".txt", ".pdf", ".docx">>

fileExtension(name) == "." \o SplitPop(name)

\* Array.prototype.includes
Includes(arr, x) == \E i \in 1..Len(arr) : arr[i] = x

ExtensionAllowed(name) == Includes(allowedExtensions, fileExtension(name))

(***************************************************************************)
(* The remote service: URLs, statuses and bodies.                          *)
(***************************************************************************)
DocumentsUrl == "http://localhost:8000/documents"

HealthUrl == "http://8000/health"

UploadUrl == "http://localhost:8000/upload"

\* the requests the component makes
Requests == {<<"GET", HealthUrl>>, <<"GET", DocumentsUrl>>, <<"POST", UploadUrl>>}

\* fetch(url, {method}): one more request of that kind is in the sent ones
Send(sent, method, url) == [sent EXCEPT ![<<method, url>>] = @ + 1]

\* names of the files a user may drop or pick
FileNames == {"report.pdf", "notes.txt", "cv.docx", "setup.exe", "scan.PDF",
              "archive.tar.gz", "README", "txt"}

Statuses == {200, 500}

\* Response.ok
Ok(status) == status \in 200..299

\* Response.statusText
StatusText(status) ==
    CASE status = 200 -> "OK"
      [] status = 201 -> "Created"
      [] status = 500 -> "Internal Server Error"

\* what response.json() of POST /upload may resolve to: null or an object
UploadJson ==
    { [kind |-> "null"],
      [kind |-> "object",
       value |-> << <<"message", "ok">>, <<"filename", "report.pdf">>,
                    <<"predicted_category", "Invoice">> >>],
      [kind |-> "object", value |-> << <<"message", "">> >>],
      [kind |-> "object", value |-> <<>>] }

(***************************************************************************)
(* Document records and the two sorts.                                     *)
(***************************************************************************)
Doc1 ==
    [id |-> "a1", filename |-> "report.pdf", predicted_category |-> "Invoice",
     confidence_scores |->
        << <<"Other", 100000>>, <<"Invoice", 700000>>, <<"Letter", 200000>> >>,
     upload_time |-> "2024-05-01T10:00:00"]

Doc2 ==
    [id |-> "b2", filename |-> "notes.txt", predicted_category |-> "Other",
     confidence_scores |->
        << <<"Invoice", 250000>>, <<"Other", 500000>>, <<"Letter", 250000>> >>,
     upload_time |-> "2024-05-02T09:30:00"]

Doc3 ==
    [id |-> "c3", filename |-> "cv.docx", predicted_category |-> "Letter",
     confidence_scores |->
        << <<"Invoice", 123451>>, <<"Letter", 753096>>, <<"Other", 123453>> >>,
     upload_time |-> "2024-05-02T09:30:00"]

\* what response.json() of GET /documents may resolve to: arrays of records in
\* any order, or a JSON value that is no array
DocumentsJson ==
    { [kind |-> "array", items |-> <<>>],
      [kind |-> "array", items |-> <<Doc1, Doc2, Doc3>>],
      [kind |-> "object", value |-> << <<"detail", "Not Found">> >>] }

Digit(c) == CHOOSE d \in 0..9 : SubSeq("0123456789", d + 1, d + 1) = c

\* the decimal number written at positions from..to of s
RECURSIVE Number(_, _, _)
Number(s, from, to) ==
    IF to < from THEN 0
    ELSE 10 * Number(s, from, to - 1) + Digit(SubSeq(s, to, to))

\* new Date(s) as a number, for s of the form YYYY-MM-DDTHH:MM:SS: seconds
\* since 1970 on a calendar of 31-day months, which orders timestamps as the
\* real one does
DateValue(s) ==
    LET year == Number(s, 1, 4)
        month == Number(s, 6, 7)
        day == Number(s, 9, 10)
        hour == Number(s, 12, 13)
        minute == Number(s, 15, 16)
        second == Number(s, 18, 19)
    IN  (((((year - 1970) * 12 + (month - 1)) * 31 + (day - 1)) * 24 + hour) * 60
            + minute) * 60 + second

\* (a, b) => new Date(b.upload_time) - new Date(a.upload_time)
CompareUploadTime(a, b) == DateValue(b.upload_time) - DateValue(a.upload_time)

\* Array.prototype.sort is stable: e goes before the first element that the
\* comparator orders after it
RECURSIVE InsertByTime(_, _)
InsertByTime(s, e) ==
    IF s = <<>> THEN <<e>>
    ELSE IF CompareUploadTime(Head(s), e) > 0 THEN <<e>> \o s
    ELSE <<Head(s)>> \o InsertByTime(Tail(s), e)

RECURSIVE SortByTime(_)
SortByTime(data) ==
    IF data = <<>> THEN <<>>
    ELSE InsertByTime(SortByTime(SubSeq(data, 1, Len(data) - 1)),
                      data[Len(data)])

Unsorted(data) == data

\* data.sort((a, b) => new Date(b.upload_time) - new Date(a.upload_time))
sortedDocuments(data) == SortByTime(data)

AscendingScore(a, b) == a[2] - b[2]

\* ([, scoreA], [, scoreB]) => scoreB - scoreA
CompareScore(a, b) == b[2] - a[2]

RECURSIVE InsertByScore(_, _)
InsertByScore(s, e) ==
    IF s = <<>> THEN <<e>>
    ELSE IF CompareScore(Head(s), e) > 0 THEN <<e>> \o s
    ELSE <<Head(s)>> \o InsertByScore(Tail(s), e)

RECURSIVE SortByScore(_)
SortByScore(entries) ==
    IF entries = <<>> THEN <<>>
    ELSE InsertByScore(SortByScore(SubSeq(entries, 1, Len(entries) - 1)),
                       entries[Len(entries)])

\* (score * 100).toFixed(2) in hundredths of a percent, scores being counted
\* in millionths
ToFixed2(score) == (score + 50) \div 100

(***************************************************************************)
(* Rendering.                                                              *)
(***************************************************************************)
\* ids of the cards documents.map renders, in order
RenderedIds == [i \in 1..Len(documents) |-> documents[i].id]

\* positions of the cards rendered with their details expanded
Expanded == {i \in 1..Len(documents) : openDocumentId = documents[i].id}

\* the confidence items of one expanded card, in rendering order: label,
\* score and the percentage shown (hundredths of a percent)
ConfidenceItems(doc) ==
    LET entries == SortByScore(doc.confidence_scores)
    IN  [i \in 1..Len(entries) |->
            [label |-> entries[i][1], score |-> entries[i][2],
             percentage |-> ToFixed2(entries[i][2])]]

\* className of the alert: message.startsWith('Error') ? danger : success
AlertClass ==
    IF StartsWith(message, "Error") THEN "alert alert-danger"
    ELSE "alert alert-success"

(***************************************************************************)
(* Messages of handleFile.                                                 *)
(***************************************************************************)
SuccessMessageWithoutCategory(data) ==
    "Success: " \o TemplateString(Get(data, "message")) \o " - "
        \o TemplateString(Get(data, "filename"))

\* `Success: ${data.message} - ${data.filename}. Category: ${...}`
SuccessMessage(data) ==
    "Success: " \o TemplateString(Get(data, "message")) \o " - "
        \o TemplateString(Get(data, "filename")) \o ". Category: "
        \o TemplateString(Get(data, "predicted_category"))

ErrorMessageWithoutFallback(data, status) ==
    "Error: " \o TemplateString(Get(data, "message"))

\* `Error: ${data.message || response.statusText}`
ErrorMessage(data, status) ==
    "Error: " \o (IF Truthy(Get(data, "message"))
                  THEN TemplateString(Get(data, "message"))
                  ELSE StatusText(status))

FailedMessage == "Failed to upload file."

RejectionMessage == "Only .txt, .pdf, and .docx files are allowed."

(***************************************************************************)
(* The state after construction, before the mount effect has run.          *)
(***************************************************************************)
Init ==
    /\ message = ""
    /\ documents = <<>>
    /\ openDocumentId = Null
    /\ isLoading = FALSE
    /\ health = "unmounted"
    /\ uploads = <<>>
    /\ fetches = <<>>
    /\ applied = 0
    /\ issued = [req \in Requests |-> 0]

(***************************************************************************)
(* fetchDocuments: the call and its continuations.                         *)
(***************************************************************************)
fetchDocumentsTwice(cause, sent) ==
    /\ fetches' = fetches \o << [cause |-> cause, pc |-> "fetch"],
                               [cause |-> cause, pc |-> "fetch"] >>
    /\ issued' = Send(Send(sent, "GET", DocumentsUrl), "GET", DocumentsUrl)

\* the synchronous part of fetchDocuments(), called on mount (cause 0) or by
\* the handleFile invocation cause; sent holds the requests issued before it
fetchDocuments(cause, sent) ==
    /\ fetches' = Append(fetches, [cause |-> cause, pc |-> "fetch"])
    /\ issued' = Send(sent, "GET", DocumentsUrl)

DocumentsFailedClearsList(r) ==
    /\ fetches' = [fetches EXCEPT ![r].pc = "failed"]
    /\ documents' = <<>>
    /\ UNCHANGED <<applied, message, openDocumentId, isLoading, health, uploads,
                   issued>>

\* console.error in the else branch and in the catch clause
DocumentsFailed(r) ==
    /\ fetches' = [fetches EXCEPT ![r].pc = "failed"]
    /\ UNCHANGED <<message, documents, applied, openDocumentId, isLoading, health,
                   uploads, issued>>

\* await fetch(...) rejects: network error
DocumentsFetchRejects(r) ==
    /\ fetches[r].pc = "fetch"
    /\ DocumentsFailed(r)

\* await fetch(...) resolves with a response
DocumentsFetchResolves(r, status) ==
    /\ fetches[r].pc = "fetch"
    /\ IF Ok(status)
       THEN /\ fetches' = [fetches EXCEPT ![r].pc = "json"]
            /\ UNCHANGED <<message, documents, applied, openDocumentId, isLoading,
                           health, uploads, issued>>
       ELSE DocumentsFailed(r)

\* await response.json() rejects: the body is no JSON
DocumentsJsonRejects(r) ==
    /\ fetches[r].pc = "json"
    /\ DocumentsFailed(r)

DocumentsJsonResolvesClearsMessage(r, json) ==
    /\ fetches[r].pc = "json"
    /\ json.kind = "array"
    /\ documents' = sortedDocuments(json.items)
    /\ applied' = r
    /\ fetches' = [fetches EXCEPT ![r].pc = "done"]
    /\ message' = ""
    /\ UNCHANGED <<openDocumentId, isLoading, health, uploads, issued>>

DocumentsJsonResolvesResetsOpen(r, json) ==
    /\ fetches[r].pc = "json"
    /\ IF json.kind = "array"
       THEN /\ documents' = sortedDocuments(json.items)
            /\ applied' = r
            /\ fetches' = [fetches EXCEPT ![r].pc = "done"]
            /\ openDocumentId' = Null
            /\ UNCHANGED <<message, isLoading, health, uploads, issued>>
       ELSE DocumentsFailed(r)

DocumentsJsonResolvesLatestOnly(r, json) ==
    /\ fetches[r].pc = "json"
    /\ IF json.kind = "array"
       THEN /\ fetches' = [fetches EXCEPT ![r].pc = "done"]
            /\ IF \E later \in (r + 1)..Len(fetches) : fetches[later].pc = "done"
               THEN UNCHANGED <<documents, applied>>
               ELSE documents' = sortedDocuments(json.items) /\ applied' = r
            /\ UNCHANGED <<message, openDocumentId, isLoading, health,
                           uploads, issued>>
       ELSE DocumentsFailed(r)

\* await response.json() resolves; data.sort throws unless data is an array
DocumentsJsonResolves(r, json) ==
    /\ fetches[r].pc = "json"
    /\ IF json.kind = "array"
       THEN /\ documents' = sortedDocuments(json.items)
            /\ applied' = r
            /\ fetches' = [fetches EXCEPT ![r].pc = "done"]
            /\ UNCHANGED <<message, openDocumentId, isLoading, health,
                           uploads, issued>>
       ELSE DocumentsFailed(r)

(***************************************************************************)
(* toggleDocumentDetails and the alert's close button.                     *)
(***************************************************************************)
ToggleWhenNoneOpen(id) == IF openDocumentId = Null THEN id ELSE Null

ToggleNeverCloses(id) == id

\* openDocumentId === id ? null : id
ToggledId(id) == IF openDocumentId = id THEN Null ELSE id

\* onClick of a rendered document card
toggleDocumentDetails(id) ==
    /\ \E i \in 1..Len(documents) : RenderedIds[i] = id
    /\ openDocumentId' = ToggledId(id)
    /\ UNCHANGED <<message, documents, applied, isLoading, health, uploads, fetches,
                   issued>>

\* onClick of the close button, rendered while message is not empty
CloseAlert ==
    /\ message # ""
    /\ message' = ""
    /\ UNCHANGED <<documents, applied, openDocumentId, isLoading, health, uploads,
                   fetches, issued>>

(***************************************************************************)
(* The mount effect and its health check.                                  *)
(***************************************************************************)
\* useEffect(..., []): fetch(url) of the health check, then fetchDocuments()
Mount ==
    /\ health = "unmounted"
    /\ health' = "fetch"
    /\ fetchDocuments(0, Send(issued, "GET", HealthUrl))
    /\ UNCHANGED <<message, documents, applied, openDocumentId, isLoading, uploads>>

\* fetch(url) resolves: log the response, return response.text()
HealthFetchResolves ==
    /\ health = "fetch"
    /\ health' = "text"
    /\ UNCHANGED <<message, documents, applied, openDocumentId, isLoading, uploads,
                   fetches, issued>>

HealthRejectsShowsMessage ==
    /\ health \in {"fetch", "text"}
    /\ health' = "done"
    /\ message' = FailedMessage
    /\ UNCHANGED <<documents, applied, openDocumentId, isLoading, uploads, fetches,
                   issued>>

\* fetch(url) or response.text() rejects: .catch logs the error
HealthRejects ==
    /\ health \in {"fetch", "text"}
    /\ health' = "done"
    /\ UNCHANGED <<message, documents, applied, openDocumentId, isLoading, uploads,
                   fetches, issued>>

\* response.text() resolves: JSON.parse, log the data or the parse error
HealthTextResolves ==
    /\ health = "text"
    /\ health' = "done"
    /\ UNCHANGED <<message, documents, applied, openDocumentId, isLoading, uploads,
                   fetches, issued>>

(***************************************************************************)
(* handleFile: the call and its continuations.                             *)
(***************************************************************************)
\* a new handleFile invocation at position pc
Invocation(pc) == [pc |-> pc, status |-> 0, outcome |-> ""]

\* handleFile(file) up to its first await, or to its end for a rejected file;
\* called by handleDrop and handleFileInputChange with the first file
handleFile(name) ==
    /\ health # "unmounted"
    /\ Len(uploads) < MaxUploads
    /\ IF ExtensionAllowed(name)
       THEN /\ message' = ""
            /\ isLoading' = TRUE
            /\ uploads' = Append(uploads, Invocation("fetch"))
            /\ issued' = Send(issued, "POST", UploadUrl)
       ELSE /\ message' = RejectionMessage
            /\ isLoading' = FALSE
            /\ uploads' = Append(uploads, Invocation("rejected"))
            /\ UNCHANGED issued
    /\ UNCHANGED <<documents, applied, openDocumentId, health, fetches>>

FinallyKeepsLoading(u, outcome) ==
    /\ isLoading' = isLoading
    /\ uploads' = [uploads EXCEPT ![u] = [pc |-> "done", status |-> 0, outcome |-> outcome]]

\* finally { setIsLoading(false) }, ending invocation u with the outcome
Finally(u, outcome) ==
    /\ isLoading' = FALSE
    /\ uploads' = [uploads EXCEPT ![u] = [pc |-> "done", status |-> 0, outcome |-> outcome]]

CatchWithoutFinally(u) ==
    /\ message' = FailedMessage
    /\ uploads' = [uploads EXCEPT
                      ![u] = [pc |-> "done", status |-> 0, outcome |-> "failed"]]
    /\ UNCHANGED <<documents, applied, openDocumentId, isLoading, health, fetches,
                   issued>>

CatchResends(u) ==
    /\ message' = FailedMessage
    /\ Finally(u, "failed")
    /\ issued' = Send(issued, "POST", UploadUrl)
    /\ UNCHANGED <<documents, applied, openDocumentId, health, fetches>>

\* catch (error) { setMessage('Failed to upload file.') } finally { ... }
Catch(u) ==
    /\ message' = FailedMessage
    /\ Finally(u, "failed")
    /\ UNCHANGED <<documents, applied, openDocumentId, health, fetches, issued>>

UploadFetchRejectsAnytime(u) == Catch(u)

\* await fetch(...) rejects: the request failed in transport
UploadFetchRejects(u) ==
    /\ uploads[u].pc = "fetch"
    /\ Catch(u)

\* await fetch(...) resolves with a response of any status
UploadFetchResolves(u, status) ==
    /\ uploads[u].pc = "fetch"
    /\ uploads' = [uploads EXCEPT ![u].pc = "json", ![u].status = status]
    /\ UNCHANGED <<message, documents, applied, openDocumentId, isLoading, health,
                   fetches, issued>>

\* await response.json() rejects: the body is no JSON
UploadJsonRejects(u) ==
    /\ uploads[u].pc = "json"
    /\ Catch(u)

UploadJsonResolvesLatestStarted(u, json) ==
    /\ uploads[u].pc = "json"
    /\ message' = IF u < Len(uploads) THEN message
                  ELSE IF json.kind = "null" THEN FailedMessage
                  ELSE IF Ok(uploads[u].status) THEN SuccessMessage(json.value)
                  ELSE ErrorMessage(json.value, uploads[u].status)
    /\ IF json.kind # "null" /\ Ok(uploads[u].status)
       THEN fetchDocuments(u, issued) /\ Finally(u, "success")
       ELSE /\ Finally(u, IF json.kind = "null" THEN "failed" ELSE "error")
            /\ UNCHANGED <<fetches, issued>>
    /\ UNCHANGED <<documents, applied, openDocumentId, health>>

\* await response.json() resolves with data; data.message throws on null
UploadJsonResolves(u, json) ==
    /\ uploads[u].pc = "json"
    /\ IF json.kind = "null" THEN Catch(u)
       ELSE IF Ok(uploads[u].status)
       THEN /\ message' = SuccessMessage(json.value)
            /\ fetchDocuments(u, issued)
            /\ Finally(u, "success")
            /\ UNCHANGED <<documents, applied, openDocumentId, health>>
       ELSE /\ message' = ErrorMessage(json.value, uploads[u].status)
            /\ Finally(u, "error")
            /\ UNCHANGED <<documents, applied, openDocumentId, health, fetches,
                           issued>>

(***************************************************************************)
(* The specification.                                                      *)
(***************************************************************************)
\* any continuation of handleFile invocation u
UploadSettles(u) ==
    \/ UploadFetchRejects(u)
    \/ \E status \in Statuses : UploadFetchResolves(u, status)
    \/ UploadJsonRejects(u)
    \/ \E json \in UploadJson : UploadJsonResolves(u, json)

Next ==
    \/ Mount
    \/ HealthFetchResolves
    \/ HealthRejects
    \/ HealthTextResolves
    \/ \E name \in FileNames : handleFile(name)
    \/ \E u \in 1..Len(uploads) : UploadFetchRejects(u)
    \/ \E u \in 1..Len(uploads), status \in Statuses :
            UploadFetchResolves(u, status)
    \/ \E u \in 1..Len(uploads) : UploadJsonRejects(u)
    \/ \E u \in 1..Len(uploads), json \in UploadJson :
            UploadJsonResolves(u, json)
    \/ \E r \in 1..Len(fetches) : DocumentsFetchRejects(r)
    \/ \E r \in 1..Len(fetches), status \in Statuses :
            DocumentsFetchResolves(r, status)
    \/ \E r \in 1..Len(fetches) : DocumentsJsonRejects(r)
    \/ \E r \in 1..Len(fetches), json \in DocumentsJson :
            DocumentsJsonResolves(r, json)
    \/ \E i \in 1..Len(documents) : toggleDocumentDetails(RenderedIds[i])
    \/ CloseAlert

Spec == Init /\ [][Next]_vars

\* the network settles every request it was handed: each pending upload is
\* eventually answered or fails
FairSpec ==
    Spec /\ \A u \in 1..MaxUploads :
                WF_vars(u \in 1..Len(uploads) /\ UploadSettles(u))

(***************************************************************************)
(* Properties.                                                             *)
(***************************************************************************)
\* s ends with suffix
EndsWith(s, suffix) ==
    /\ Len(s) >= Len(suffix)
    /\ SubSeq(s, Len(s) - Len(suffix) + 1, Len(s)) = suffix

\* the name ends with one of the allowed extensions
HasAllowedExtension(name) ==
    \E ext \in {".txt", ".pdf", ".docx"} : EndsWith(name, ext)

\* POST /upload requests issued so far
Posts == issued[<<"POST", UploadUrl>>]

\* some handleFile invocation awaits its request or its response's body
UploadInFlight ==
    \E u \in 1..Len(uploads) : uploads[u].pc \in {"fetch", "json"}

\* number of GET /documents requests that list fs holds for invocation u
Gets(fs, u) == Cardinality({r \in 1..Len(fs) : fs[r].cause = u})

\* C1: for every file whose extension is outside {.txt, .pdf, .docx},
\* handleFile issues no POST /upload and leaves a message that starts with
\* "Error".
C1_RejectedFileShowsErrorWithoutUpload ==
    [][\A name \in FileNames :
          (~HasAllowedExtension(name) /\ handleFile(name))
              => (Posts' = Posts /\ StartsWith(message', "Error"))]_vars

\* C2: isLoading is true exactly while an upload started by handleFile has
\* not completed: never true without one, never false while one is in flight.
C2_LoadingExactlyWhileUploading == isLoading <=> UploadInFlight

\* C3 as stated: every 2xx response to POST /upload that handleFile finishes
\* handling has led to exactly one GET /documents on behalf of that upload.
C3_EveryOkResponseRefetchesOnce ==
    [][\A u \in 1..Len(uploads) :
          (uploads[u].pc = "json" /\ Ok(uploads[u].status)
                /\ uploads'[u].pc = "done")
              => Gets(fetches', u) = 1]_vars

\* C3 as amended: every 2xx response to POST /upload whose body parses to a
\* JSON object ends the invocation as a success, and an invocation has issued
\* exactly one GET /documents if it ended as a success and none otherwise.
C3_ParsedOkResponseRefetchesOnce ==
    /\ [](\A u \in 1..Len(uploads) :
            Gets(fetches, u) = IF uploads[u].outcome = "success" THEN 1 ELSE 0)
    /\ [][\A u \in 1..Len(uploads), json \in UploadJson :
            (json.kind = "object" /\ Ok(uploads[u].status)
                  /\ UploadJsonResolves(u, json))
                => uploads'[u].outcome = "success"]_vars

\* a 2xx upload was handled as a success and its refetch is issued
C3_Witness ==
    \E u \in 1..Len(uploads) :
        uploads[u].outcome = "success" /\ Gets(fetches, u) = 1

\* C4: in every reachable state the document list is ordered descending by
\* upload_time, most recent first, whatever the server's order was.
C4_DocumentsNewestFirst ==
    \A i, j \in 1..Len(documents) :
        i < j => DateValue(documents[i].upload_time)
                    >= DateValue(documents[j].upload_time)

\* a fetch was applied and the list holds records of different upload times
C4_Witness ==
    /\ \E r \in 1..Len(fetches) : fetches[r].pc = "done"
    /\ Len(documents) = 3
    /\ \E i, j \in 1..Len(documents) :
            documents[i].upload_time # documents[j].upload_time

\* C5: at most one card is expanded in any reachable state; a toggle of A
\* leaves A or nothing expanded, and from either a toggle of another rendered
\* card B leaves B expanded and nothing else, A included.
C5_OnlyLastToggledExpanded ==
    /\ [](Cardinality(Expanded) <= 1)
    /\ [][\A a, b \in {Doc1.id, Doc2.id, Doc3.id} :
            /\ toggleDocumentDetails(a) => openDocumentId' \in {a, Null}
            /\ (a # b /\ openDocumentId \in {a, Null}
                    /\ toggleDocumentDetails(b))
                  => /\ openDocumentId' = b
                     /\ \A i \in 1..Len(documents') :
                            i \in Expanded' <=> RenderedIds'[i] = b]_vars

\* the second of three rendered cards is the expanded one
C5_Witness ==
    /\ Len(documents) = 3
    /\ Expanded = {2}

\* C6 as stated: the scores rendered for an expanded card are strictly
\* descending.
C6_ScoresStrictlyDescending ==
    \A d \in Expanded :
        LET items == ConfidenceItems(documents[d])
        IN  \A i \in 1..(Len(items) - 1) : items[i].score > items[i + 1].score

\* C6 as amended: the items rendered for an expanded card are the card's
\* confidence_scores, each once, and neither the scores nor the percentages
\* shown ever increase from one item to the next.
C6_ScoresDescending ==
    \A d \in Expanded :
        LET items == ConfidenceItems(documents[d])
            scores == documents[d].confidence_scores
        IN  /\ Len(items) = Len(scores)
            /\ \A k \in 1..Len(scores) :
                    \E i \in 1..Len(items) :
                        <<items[i].label, items[i].score>> = scores[k]
            /\ \A i \in 1..(Len(items) - 1) :
                    /\ items[i].score >= items[i + 1].score
                    /\ items[i].percentage >= items[i + 1].percentage

\* a card is expanded whose scores the server sent out of order
C6_Witness ==
    \E d \in Expanded :
        LET scores == documents[d].confidence_scores
        IN  \E i \in 1..(Len(scores) - 1) : scores[i][2] < scores[i + 1][2]

\* the body has all of message, filename and predicted_category
FullBody(data) ==
    \A key \in {"message", "filename", "predicted_category"} :
        \E i \in 1..Len(data) : data[i][1] = key

\* the value the body's entries give to key
Field(data, key) == data[CHOOSE i \in 1..Len(data) : data[i][1] = key][2]

\* C7: when POST /upload returns 2xx with body {message, filename,
\* predicted_category}, the message displayed once handleFile has handled it
\* is "Success: <message> - <filename>. Category: <predicted_category>".
C7_SuccessMessageText ==
    [][\A u \in 1..Len(uploads), json \in UploadJson :
          (/\ json.kind = "object"
           /\ FullBody(json.value)
           /\ Ok(uploads[u].status)
           /\ UploadJsonResolves(u, json))
              => /\ message' = "Success: " \o Field(json.value, "message")
                        \o " - " \o Field(json.value, "filename")
                        \o ". Category: "
                        \o Field(json.value, "predicted_category")
                 /\ json.value = << <<"message", "ok">>,
                                    <<"filename", "report.pdf">>,
                                    <<"predicted_category", "Invoice">> >>
                        => message'
                            = "Success: ok - report.pdf. Category: Invoice"]_vars

\* the spec's example: the success message of report.pdf is displayed
C7_Witness ==
    /\ message = "Success: ok - report.pdf. Category: Invoice"
    /\ \E u \in 1..Len(uploads) : uploads[u].outcome = "success"

\* fetchDocuments call r fails in this step: network error, non-2xx
\* response, unparseable body, or a body that is no array
FetchFails(r) ==
    \/ DocumentsFetchRejects(r)
    \/ \E status \in Statuses : ~Ok(status) /\ DocumentsFetchResolves(r, status)
    \/ DocumentsJsonRejects(r)
    \/ \E json \in DocumentsJson :
            json.kind # "array" /\ DocumentsJsonResolves(r, json)

\* C8: when a fetchDocuments call fails, the document list and the displayed
\* message are what they were before the failure was handled.
C8_FailedFetchChangesNothing ==
    [][\A r \in 1..Len(fetches) :
          FetchFails(r) => documents' = documents /\ message' = message]_vars

\* the refetch of an upload has failed while the list of the mount fetch and
\* the upload's message are shown
C8_Witness ==
    /\ \E r \in 1..Len(fetches) :
            fetches[r].pc = "failed" /\ fetches[r].cause > 0
    /\ \E r \in 1..Len(fetches) :
            fetches[r].pc = "done" /\ fetches[r].cause = 0
    /\ documents # <<>>
    /\ message # ""

\* the body has a message property
HasMessage(data) == \E i \in 1..Len(data) : data[i][1] = "message"

\* invocation u fails in transport or its response's body is no JSON
TransportOrParseFailure(u) == UploadFetchRejects(u) \/ UploadJsonRejects(u)

\* C9 as stated: a non-2xx response with a JSON body displays "Error: " and
\* the body's message if present, the status text otherwise; a transport
\* failure or a body that is no JSON displays "Failed to upload file.".
C9_ErrorMessageFromBodyOrStatus ==
    [][\A u \in 1..Len(uploads) :
          /\ \A json \in UploadJson :
                (~Ok(uploads[u].status) /\ UploadJsonResolves(u, json))
                    => message' = "Error: "
                          \o (IF json.kind = "object" /\ HasMessage(json.value)
                              THEN Field(json.value, "message")
                              ELSE StatusText(uploads[u].status))
          /\ TransportOrParseFailure(u) => message' = "Failed to upload file."
      ]_vars

\* C9 as amended: a non-2xx response with a JSON body other than null displays
\* "Error: " and the body's message if present and not empty, the status text
\* otherwise; a transport failure, a body that is no JSON or the JSON body
\* null, whatever the status, displays "Failed to upload file.".
C9_ErrorMessageFromTruthyBodyMessage ==
    [][\A u \in 1..Len(uploads) :
          /\ \A json \in UploadJson :
                /\ (json.kind = "object" /\ ~Ok(uploads[u].status)
                        /\ UploadJsonResolves(u, json))
                    => message' = "Error: "
                          \o (IF HasMessage(json.value)
                                    /\ Field(json.value, "message") # ""
                              THEN Field(json.value, "message")
                              ELSE StatusText(uploads[u].status))
                /\ (json.kind = "null" /\ UploadJsonResolves(u, json))
                    => message' = "Failed to upload file."
          /\ TransportOrParseFailure(u) => message' = "Failed to upload file."
      ]_vars

\* a non-2xx response without a usable message was handled: the status text
\* is displayed
C9_Witness ==
    /\ message = "Error: Internal Server Error"
    /\ \E u \in 1..Len(uploads) : uploads[u].outcome = "error"

\* handleFile invocation u has returned
Ended(u) == u <= Len(uploads) /\ uploads[u].pc \in {"rejected", "done"}

\* C10: when no upload is in flight isLoading is false; the step that ends a
\* handleFile invocation, whatever the outcome, leaves isLoading false; and
\* the requests completing, the invocations in flight all end.
C10_LoadingClearedAtEnd ==
    /\ [](~UploadInFlight => ~isLoading)
    /\ [][\A u \in 1..Len(uploads') :
            ~Ended(u) /\ Ended(u)' => ~isLoading']_vars
    /\ UploadInFlight ~> (~UploadInFlight /\ ~isLoading)

\* uploads of each outcome and a rejected file have ended; nothing is loading
C10_Witness ==
    /\ ~isLoading
    /\ Len(uploads) = MaxUploads
    /\ \A u \in 1..Len(uploads) : Ended(u)
    /\ \E u \in 1..Len(uploads) : uploads[u].outcome = "failed"

\* where the upload flow of handleFile invocation u stands in the list ups of
\* invocations: Idle before the call, Uploading while it awaits the response
\* or its body, and how it ended once it has returned
FlowState(ups, u) ==
    IF u > Len(ups) THEN "Idle"
    ELSE CASE ups[u].pc = "rejected" -> "Rejected"
           [] ups[u].pc \in {"fetch", "json"} -> "Uploading"
           [] ups[u].outcome = "success" -> "Success"
           [] OTHER -> "Failed"

\* the changes of state an upload flow may make; validation is the
\* synchronous start of the call, which leaves it Rejected or Uploading
FlowTransitions ==
    { <<"Idle", "Rejected">>, <<"Idle", "Uploading">>,
      <<"Uploading", "Success">>, <<"Uploading", "Failed">> }

\* C11: every change of an upload flow's state is one of Idle -> Rejected,
\* Idle -> Uploading, Uploading -> Success, Uploading -> Failed, so nothing
\* follows Rejected and Success or Failed come only from Uploading; the step
\* that reaches Rejected, Success or Failed ends the invocation, and the one
\* that reaches Rejected or Failed leaves a message displayed.
C11_UploadFlowTransitions ==
    [][\A u \in 1..Len(uploads') :
          LET from == FlowState(uploads, u)
              to == FlowState(uploads', u)
          IN  from # to =>
                /\ <<from, to>> \in FlowTransitions
                /\ to \in {"Rejected", "Success", "Failed"}
                    => Ended(u)' /\ ~isLoading'
                /\ to \in {"Rejected", "Failed"} => message' # ""]_vars

\* the flows of a rejected file and of a failed upload have both ended and
\* a message is displayed
C11_Witness ==
    /\ \E u \in 1..Len(uploads) : FlowState(uploads, u) = "Rejected"
    /\ \E u \in 1..Len(uploads) : FlowState(uploads, u) = "Failed"
    /\ message # ""

\* the origin of the service's URLs
BaseOrigin == "http://localhost:8000"

\* C12: every request issued, GET /health, GET /documents or POST /upload,
\* has a URL of the origin http://localhost:8000.
C12_AllRequestsToBaseOrigin ==
    \A req \in Requests :
        issued[req] > 0 => StartsWith(req[2], BaseOrigin \o "/")

\* GET requests of the health check issued so far
HealthGets == issued[<<"GET", HealthUrl>>]

\* C13: no GET /health is issued before the mount effect runs and exactly one
\* from then on, whatever becomes of it; and every step of the health check,
\* its request resolving, its body parsed or not, or either failing, leaves
\* message, documents, openDocumentId and isLoading unchanged.
C13_HealthCheckOnceWithoutEffect ==
    /\ [](HealthGets = IF health = "unmounted" THEN 0 ELSE 1)
    /\ [][health' # health
            => UNCHANGED <<message, documents, openDocumentId, isLoading>>]_vars

\* the health check has completed while a list and a message are displayed
C13_Witness ==
    /\ health = "done"
    /\ HealthGets = 1
    /\ documents # <<>>
    /\ message # ""

\* the alert is dismissed or a handleFile call begins in this step
DismissedOrNextUpload == CloseAlert \/ \E name \in FileNames : handleFile(name)

\* a handleFile invocation that awaited its response or its body ends in this
\* step
UploadEnds ==
    \E u \in 1..Len(uploads) :
        uploads[u].pc \in {"fetch", "json"} /\ uploads'[u].pc = "done"

\* C14 as stated: a displayed message changes or disappears only in a step
\* that dismisses it or begins a handleFile call.
C14_MessageKeptUntilDismissedOrNextUpload ==
    [][(message # "" /\ message' # message) => DismissedOrNextUpload]_vars

\* C14 as amended: a displayed message changes or disappears only in a step
\* that dismisses it, begins a handleFile call or ends a handleFile invocation
\* that was in flight; a document toggle, a step of any fetchDocuments call
\* and a step of the health check leave it as it is.
C14_MessageKeptUntilDismissedOrUploadStep ==
    [][/\ (message # "" /\ message' # message)
            => (DismissedOrNextUpload \/ UploadEnds)
       /\ (\/ openDocumentId' # openDocumentId
           \/ fetches' # fetches /\ uploads' = uploads
           \/ health' # health) => message' = message]_vars

\* the only upload has succeeded and its message is still displayed after its
\* refetch was applied, a card was expanded and the health check completed
C14_Witness ==
    /\ Len(uploads) = 1
    /\ uploads[1].outcome = "success"
    /\ StartsWith(message, "Success: ")
    /\ \E r \in 1..Len(fetches) : fetches[r].cause = 1 /\ fetches[r].pc = "done"
    /\ openDocumentId # Null
    /\ health = "done"

\* C15: a toggle of the expanded card A leaves no card expanded; and after a
\* toggle of A made when A or nothing was expanded, A is still rendered and a
\* second toggle of A gives back the expansion that held before the first.
C15_ToggleTwiceRestores ==
    [][\A a \in {Doc1.id, Doc2.id, Doc3.id} :
          toggleDocumentDetails(a) =>
            /\ openDocumentId = a
                => openDocumentId' = Null /\ Expanded' = {}
            /\ openDocumentId \in {Null, a}
                => /\ \E i \in 1..Len(documents') : RenderedIds'[i] = a
                   /\ ToggledId(a)' = openDocumentId]_vars

\* the first of three rendered cards is expanded and a click on it closes it
C15_Witness ==
    /\ Len(documents) = 3
    /\ Expanded = {1}
    /\ ENABLED (toggleDocumentDetails(RenderedIds[1]) /\ openDocumentId' = Null)

\* GET /documents requests issued so far
DocumentGets == issued[<<"GET", DocumentsUrl>>]

\* 1 in the step that runs the mount effect, 0 in any other
MountStep == IF health = "unmounted" /\ health' # health THEN 1 ELSE 0

\* a request fails in this step: a fetchDocuments call logs its failure, or a
\* handleFile invocation ends in the catch clause or the error branch
RequestFails ==
    \/ \E r \in 1..Len(fetches) :
            fetches[r].pc # "failed" /\ fetches'[r].pc = "failed"
    \/ \E u \in 1..Len(uploads) :
            uploads[u].outcome = "" /\ uploads'[u].outcome \in {"failed", "error"}

\* C16 as stated: the GET /documents requests issued in a step are one for
\* the mount effect plus one for each 2xx upload response whose handling ends
\* in it.
C16_GetsAreMountPlusOkResponses ==
    [][DocumentGets' - DocumentGets
          = MountStep + Cardinality({u \in 1..Len(uploads) :
                            /\ uploads[u].pc = "json"
                            /\ Ok(uploads[u].status)
                            /\ uploads'[u].pc = "done"})]_vars

\* C16 as amended: the POST /upload requests issued are one for each
\* invocation of handleFile that was not rejected, each issued by the step
\* that begins the invocation; the GET /documents requests issued are one for
\* each fetchDocuments invocation, which are the mount's and one for each
\* upload that ended as a success; and a step in which a request fails issues
\* no request.
C16_NoRetries ==
    /\ [](/\ Posts = Cardinality({u \in 1..Len(uploads) :
                                    uploads[u].pc # "rejected"})
          /\ DocumentGets = Len(fetches)
          /\ DocumentGets
                = (IF health = "unmounted" THEN 0 ELSE 1)
                    + Cardinality({u \in 1..Len(uploads) :
                                        uploads[u].outcome = "success"}))
    /\ [][/\ Posts' # Posts
                => Posts' = Posts + 1 /\ Len(uploads') = Len(uploads) + 1
          /\ RequestFails => issued' = issued]_vars

\* every request has settled: an upload failed, another succeeded and its
\* refetch failed, and two GET /documents and two POST /upload were issued
C16_Witness ==
    /\ \E u \in 1..Len(uploads) : uploads[u].outcome = "failed"
    /\ \E u \in 1..Len(uploads) : uploads[u].outcome = "success"
    /\ \E r \in 1..Len(fetches) : fetches[r].cause > 0 /\ fetches[r].pc = "failed"
    /\ \A r \in 1..Len(fetches) : fetches[r].pc \in {"done", "failed"}
    /\ DocumentGets = 2
    /\ Posts = 2

\* the bodies of GET /documents that are arrays
DocumentsArrays == {json \in DocumentsJson : json.kind = "array"}

\* fetchDocuments invocation r was called before one whose response has
\* already been applied to the list
Superseded(r) ==
    \E later \in (r + 1)..Len(fetches) : fetches[later].pc = "done"

\* C17: a new fetchDocuments call leaves the calls made before it as they
\* are, in flight if they were; and when the body of a call arrives after the
\* response of a later call was applied, the list becomes the earlier call's
\* data, sorted.
C17_StaleResponseOverwrites ==
    [][/\ Len(fetches') > Len(fetches)
            => \A r \in 1..Len(fetches) : fetches'[r] = fetches[r]
       /\ \A r \in 1..Len(fetches), json \in DocumentsArrays :
            (/\ fetches[r].pc = "json"
             /\ fetches'[r].pc = "done"
             /\ Superseded(r)
             /\ DocumentsJsonResolves(r, json))
                => /\ documents' = sortedDocuments(json.items)
                   /\ applied' = r]_vars

\* the list holds the data of the mount's fetchDocuments call, applied after
\* the response of an upload's refetch
C17_Witness ==
    /\ applied = 1
    /\ fetches[1].cause = 0
    /\ \E later \in 2..Len(fetches) :
            fetches[later].cause > 0 /\ fetches[later].pc = "done"
    /\ documents # <<>>

\* text is a message that handleFile displays for the outcome
ShowsOutcome(text, outcome) ==
    CASE outcome = "success" -> StartsWith(text, "Success: ")
      [] outcome = "error" -> StartsWith(text, "Error: ")
      [] outcome = "failed" -> text = FailedMessage
      [] OTHER -> FALSE

\* C18: a handleFile call made for an allowed file while an upload is in
\* flight issues its own POST /upload and leaves the earlier invocations in
\* flight; and the step that ends an invocation in flight displays that
\* invocation's outcome, whether or not invocations were started after it.
C18_OverlappingUploadsLastHandledWins ==
    [][/\ \A name \in FileNames :
            (/\ UploadInFlight
             /\ Len(uploads') > Len(uploads)
             /\ ExtensionAllowed(name)
             /\ handleFile(name))
                => /\ Posts' = Posts + 1
                   /\ \A u \in 1..Len(uploads) : uploads'[u] = uploads[u]
       /\ \A u \in 1..Len(uploads) :
            (uploads[u].pc \in {"fetch", "json"} /\ uploads'[u].pc = "done")
                => ShowsOutcome(message', uploads'[u].outcome)]_vars

\* two uploads overlapped: the second succeeded, and the first, handled
\* after it, failed and its message is the one displayed
C18_Witness ==
    /\ Len(uploads) = 2
    /\ uploads[1].outcome = "failed"
    /\ uploads[2].outcome = "success"
    /\ message = FailedMessage
    /\ Posts = 2

\* C19: a handleFile call issues a POST /upload if and only if the file's
\* name ends with .txt, .pdf or .docx, and for every other name it displays
\* the rejection message.
C19_PostsIffAllowedExtension ==
    [][\A name \in FileNames :
          handleFile(name)
            => /\ Posts' = Posts + 1 <=> HasAllowedExtension(name)
               /\ ~HasAllowedExtension(name)
                    => Posts' = Posts /\ message' = RejectionMessage]_vars

\* C20: the step that handles an upload as a success leaves the success
\* message displayed, one more GET /documents issued for that upload and not
\* yet answered, isLoading false and the list as it was; and a fetchDocuments
\* call made for an upload exists only once that upload has ended as a
\* success, so its response is applied after that step.
C20_SuccessThenRefetchThenIdle ==
    /\ [](\A r \in 1..Len(fetches) :
            fetches[r].cause > 0
                => uploads[fetches[r].cause].outcome = "success")
    /\ [][\A u \in 1..Len(uploads) :
            (uploads[u].outcome = "" /\ uploads'[u].outcome = "success")
                => /\ StartsWith(message', "Success: ")
                   /\ DocumentGets' = DocumentGets + 1
                   /\ fetches' = Append(fetches, [cause |-> u, pc |-> "fetch"])
                   /\ ~isLoading'
                   /\ documents' = documents
                   /\ applied' = applied]_vars

\* an upload has succeeded: its message is displayed and nothing is loading,
\* while its refetch is still awaited and the list holds the mount's data
C20_Witness ==
    /\ ~isLoading
    /\ StartsWith(message, "Success: ")
    /\ \E r \in 1..Len(fetches) :
            /\ fetches[r].cause > 0
            /\ uploads[fetches[r].cause].outcome = "success"
            /\ fetches[r].pc \in {"fetch", "json"}
    /\ applied = 1
    /\ fetches[1].cause = 0

\* a continuation of a fetchDocuments call runs in this step
FetchDocumentsStep ==
    \E r \in 1..Len(fetches) : fetches'[r].pc # fetches[r].pc

\* a handleFile invocation begins or continues in this step
HandleFileStep ==
    \/ Len(uploads') > Len(uploads)
    \/ \E u \in 1..Len(uploads) : uploads'[u] # uploads[u]

\* C21: a step that changes openDocumentId is a toggle and changes no other
\* view state; a step of a fetchDocuments call leaves openDocumentId, message
\* and isLoading as they are, even when the id is not in the new list; a step
\* of handleFile leaves openDocumentId and documents as they are; and the list
\* changes only when a fetchDocuments call applies its response, the call
\* being the mount's or the refetch of an upload that ended as a success.
C21_ViewStateUpdatedIndependently ==
    [][/\ openDocumentId' # openDocumentId
            => /\ \E i \in 1..Len(documents) :
                    toggleDocumentDetails(RenderedIds[i])
               /\ UNCHANGED <<message, documents, isLoading>>
       /\ FetchDocumentsStep
            => UNCHANGED <<openDocumentId, message, isLoading>>
       /\ HandleFileStep => UNCHANGED <<openDocumentId, documents>>
       /\ documents' # documents
            => /\ FetchDocumentsStep
               /\ applied' \in 1..Len(fetches)
               /\ fetches[applied'].cause > 0
                    => uploads[fetches[applied'].cause].outcome = "success"
      ]_vars

\* a card was expanded and a refetch then brought a list without it: the id
\* is kept, and no card is expanded
C21_Witness ==
    /\ openDocumentId # Null
    /\ applied > 1
    /\ \A i \in 1..Len(documents) : RenderedIds[i] # openDocumentId
    /\ Expanded = {}

====
